---- MODULE Spec2Model ----
(***************************************************************************)
(* Model of derby-react: the useRacerState hook (src/src/racer.ts), which  *)
(* mirrors the value at a path of a Racer model into a React component.    *)
(*                                                                         *)
(* The Racer store is a two-level tree: top-level keys hold a value that   *)
(* is undefined, null, a primitive, or an object with one child "x".       *)
(* React is modelled by what the hook uses of it: useState (a cell with a  *)
(* queued update and the Object.is bail-out) and useEffect (dependency     *)
(* comparison, effects run after the render that scheduled them).          *)
(*                                                                         *)
(* renderReactComponent (src/src/derby.ts) is modelled next to it: React   *)
(* roots created for Derby host components and the hosts' 'destroy' event. *)
(***************************************************************************)
EXTENDS Integers, Sequences, FiniteSets, TLC

\* ---------------------------------------------------------------- bounds
MaxVal == 2
MaxCalls == 3
MaxDestroy == 2

\* ---------------------------------------------------------------- values
Consumers == {"c1", "c2"}
TopKeys == {"a", "b"}
\* One store root and one event context: every handle a consumer is given
\* has the same rootModel and modelEventContext, only the path varies.
Contexts == {0}

Undef == [k |-> "undef", v |-> 0]
Null == [k |-> "null", v |-> 0]
NoUpdate == [k |-> "none", v |-> 0]
Prim(n) == [k |-> "prim", v |-> n]
Obj(n) == [k |-> "obj", v |-> n]

Prims == {Prim(n) : n \in 1..MaxVal}
Objs == {Obj(1)}
Values == {Undef, Null} \cup Prims \cup Objs
Defaults == {Undef, Null, Prim(1)}
Solo == "c1"
PairValues == {Prim(1)}
PairDefaults == {Undef}
QuietValues == {Undef, Prim(1)}
QuietDefaults == {Undef, Prim(1), Prim(2)}

\* Paths are sequences of segments; consumers bind top-level paths, and
\* mutations happen at a top-level path or at its child "x".  (A mutation
\* at an ancestor of a bound path does not occur in this model.)
BoundPaths == {<<t>> : t \in TopKeys}
MutPaths == BoundPaths \cup {<<t, "x">> : t \in TopKeys}

IsPrefix(p, q) == Len(p) <= Len(q) /\ SubSeq(q, 1, Len(p)) = p

\* `x ?? y` and `x != null` treat undefined and null alike.
IsNullish(v) == v.k \in {"undef", "null"}
Coalesce(v, d) == IF IsNullish(v) THEN d ELSE v

\* Object.is on what getDeepCopy returns: a deep copy of an object is a
\* fresh object, never identical to an earlier copy.
SameValue(u, v) == u = v /\ u.k # "obj"

\* scopedModel.getDeepCopy()
GetDeepCopy(st, p) ==
  IF Len(p) = 1 THEN st[p[1]]
  ELSE IF st[p[1]].k = "obj" THEN Prim(st[p[1]].v) ELSE Undef

\* The store after writing v at path q.
Write(st, q, v) ==
  IF Len(q) = 1 THEN [st EXCEPT ![q[1]] = v]
  ELSE [st EXCEPT ![q[1]] = Obj(v.v)]

\* A write beneath a top-level key needs an object (or nothing) there.
CanWrite(st, q, v) ==
  Len(q) = 1 \/ (v = Prim(1) /\ st[q[1]].k \in {"undef", "null", "obj"})

NoSub == [owner |-> "none", path |-> <<>>, ctx |-> 0]
\* A listener that code other than the hook registered on path "a".
OtherListener == [owner |-> "other", path |-> <<"a">>, ctx |-> 0]
Keys(p, e) == [path |-> p, ctx |-> e]

VARIABLES
  data,          \* the Racer model: TopKeys -> Values
  listeners,     \* the store's 'all' listeners, in registration order
  phase,         \* per consumer: "new", "mounted", "discarded"
  dflt,          \* per consumer: the defaultValue argument
  keys,          \* per consumer: [path, ctx] of the last committed invocation
  cell,          \* per consumer: useState's committed state
  queue,         \* per consumer: the queued setStateValue update, or NoUpdate
  returned,      \* per consumer: modelValue of the last committed invocation
  effectPending, \* per consumer: an effect (or its cleanup) waits to run
  sub,           \* per consumer: the listener its last effect registered
  prev,          \* per consumer: the path of the listener that effect replaced
  calls,         \* per consumer: callback invocations during the last step
  last,          \* what the last step was
  roots,         \* the React roots createRoot returned, in creation order
  hostListeners, \* per host: the roots its 'destroy' listeners unmount
  fired,         \* per host: how many times 'destroy' was emitted
  mlast          \* the last step of the mount adapter

hookVars == <<data, listeners, phase, dflt, keys, cell, queue, returned,
              effectPending, sub, prev, calls, last>>
mountVars == <<roots, hostListeners, fired, mlast>>
vars == <<data, listeners, phase, dflt, keys, cell, queue, returned,
          effectPending, sub, prev, calls, last,
          roots, hostListeners, fired, mlast>>

NoCalls == [c \in Consumers |-> 0]

\* Derby components that host React roots.
Hosts == {"h1", "h2"}

\* The record of the mount adapter's last step:
\*   op: "call" (renderReactComponent) or "destroy";  host: the component
\*   outcome: "returned", "createThrew", "renderThrew" for a call
\*   root: the index of the root a call created (0 if none)
\*   err: an error was raised to the caller (call) or the emitter (destroy)
MLastRec(op, h, outcome, root, err) ==
  [op |-> op, host |-> h, outcome |-> outcome, root |-> root, err |-> err]

\* The record of the last step: the operation, its consumer and path, and
\*   arg: the value written (setter) or the default supplied (invocation)
\*   pre: the store's value at the path when an invocation started
\*   ret: the current value the invocation returned
\*   wrote: the invocation wrote the default;  committed: React kept its output
\*   rm, add: listeners removed and installed by an effect
LastRec(op, c, p, arg, pre, ret, wrote, committed, rm, add) ==
  [op |-> op, c |-> c, path |-> p, arg |-> arg, pre |-> pre, ret |-> ret,
   wrote |-> wrote, committed |-> committed, rm |-> rm, add |-> add]

Invocations == {"mount", "render", "staterender"}

\* ---------------------------------------------------------------- useState
\* setStateValue(v) from outside a render of the component: dropped when the
\* component is not mounted; bails out when nothing is queued and v is the
\* committed state; otherwise queues v (the last queued value wins).
SetStateValue(ph, cl, qu, v) ==
  IF ph # "mounted" THEN qu
  ELSE IF qu = NoUpdate /\ SameValue(v, cl) THEN NoUpdate
  ELSE v

\* ---------------------------------------------------------------- events
\* A listener on 'all' with pattern '**' under listenerModel's path fires for
\* a mutation at that path or beneath it.
MatchesExactPath(l, q) == l.owner \in Consumers /\ l.path = q
Matches(l, q) == l.owner \in Consumers /\ IsPrefix(l.path, q)

\* One mutation event at q dispatched, in order, to the listeners ls: each
\* matching callback runs setStateValue(listenerModel.getDeepCopy()).
\* `rendering` is the consumer whose function body is executing ("none"
\* outside a render): its own update is a render-phase update, always queued.
RECURSIVE Dispatch(_, _, _, _, _, _, _)
Dispatch(ls, q, st, ph, cl, qu, rendering) ==
  IF ls = <<>> THEN qu
  ELSE LET l == Head(ls)
           v == GetDeepCopy(st, l.path)
           qu1 == IF ~Matches(l, q) THEN qu
                  ELSE IF l.owner = rendering
                       THEN [qu EXCEPT ![l.owner] = v]
                       ELSE [qu EXCEPT ![l.owner] =
                              SetStateValue(ph[l.owner], cl[l.owner], qu[l.owner], v)]
       IN Dispatch(Tail(ls), q, st, ph, cl, qu1, rendering)

RECURSIVE CountCalls(_, _, _)
CountCalls(ls, q, c) ==
  IF ls = <<>> THEN 0
  ELSE (IF Matches(Head(ls), q) /\ Head(ls).owner = c THEN 1 ELSE 0)
       + CountCalls(Tail(ls), q, c)

CallsFor(ls, q) == [c \in Consumers |-> CountCalls(ls, q, c)]

\* ---------------------------------------------------------------- init
Init ==
  /\ data = [t \in TopKeys |-> Undef]
  /\ listeners = <<OtherListener>>
  /\ phase = [c \in Consumers |-> "new"]
  /\ dflt = [c \in Consumers |-> Undef]
  /\ keys = [c \in Consumers |-> Keys(<<"a">>, 0)]
  /\ cell = [c \in Consumers |-> Undef]
  /\ queue = [c \in Consumers |-> NoUpdate]
  /\ returned = [c \in Consumers |-> Undef]
  /\ effectPending = [c \in Consumers |-> FALSE]
  /\ sub = [c \in Consumers |-> NoSub]
  /\ prev = [c \in Consumers |-> <<>>]
  /\ calls = NoCalls
  /\ last = LastRec("init", "none", <<>>, Undef, Undef, Undef, FALSE, FALSE, 0, 0)
  /\ roots = <<>>
  /\ hostListeners = [h \in Hosts |-> <<>>]
  /\ fired = [h \in Hosts |-> 0]
  /\ mlast = MLastRec("init", "none", "none", 0, FALSE)

\* ---------------------------------------------------------------- store
\* Application code outside the hook mutates the model: model.set(q, v),
\* or model.del(q) when v is Undef.  The event is emitted synchronously.
ExternalMutation(q, v) ==
  /\ CanWrite(data, q, v)
  /\ LET st == Write(data, q, v) IN
     /\ data' = st
     /\ queue' = Dispatch(listeners, q, st, phase, cell, queue, "none")
     /\ calls' = CallsFor(listeners, q)
     /\ last' = LastRec("mutate", "none", q, Undef, Undef, Undef, FALSE, FALSE, 0, 0)
  /\ UNCHANGED <<listeners, phase, dflt, keys, cell, returned, effectPending, sub, prev>>
  /\ UNCHANGED mountVars

\* The path setModelValue writes: that of scopedModel, the handle passed to
\* the invocation that returned the setter.
SetterPathOfListener(c) == IF sub[c] # NoSub THEN sub[c].path ELSE keys[c].path
SetterPath(c) == keys[c].path

\* setModelValue(newValue): scopedModel.set(newValue) through the handle of
\* the consumer's last committed invocation.
SetModelValue(c, v) ==
  /\ phase[c] = "mounted"
  /\ LET q == SetterPath(c)
         st == Write(data, q, v) IN
     /\ data' = st
     /\ queue' = Dispatch(listeners, q, st, phase, cell, queue, "none")
     /\ calls' = CallsFor(listeners, q)
     /\ last' = LastRec("setter", c, q, v, Undef, Undef, FALSE, FALSE, 0, 0)
  /\ UNCHANGED <<listeners, phase, dflt, keys, cell, returned, effectPending, sub, prev>>
  /\ UNCHANGED mountVars

\* ---------------------------------------------------------------- the hook
\* scopedModel.setNull(defaultValue), guarded by `defaultValue != null`:
\* writes only when the path holds null or undefined.
DefaultWritesUndefinedOnly(st, p, d) == ~IsNullish(d) /\ GetDeepCopy(st, p) = Undef
DefaultWritesAlways(st, p, d) == ~IsNullish(d)
DefaultWritesUnguarded(st, p, d) == IsNullish(GetDeepCopy(st, p))
DefaultWrites(st, p, d) == ~IsNullish(d) /\ IsNullish(GetDeepCopy(st, p))
SetNullOverwrites(st, p, d) == IF ~IsNullish(d) THEN Write(st, p, d) ELSE st
SetNull(st, p, d) == IF DefaultWrites(st, p, d) THEN Write(st, p, d) ELSE st

\* useEffect's dependency comparison over [rootModel, modelPath,
\* modelEventContext]: the effect is re-run only when a key differs.
DepsChangedAlways(old, new) == TRUE
DepsChanged(old, new) == old # new

\* One invocation of useRacerState(handle(p, e), d) by consumer c.
\*   first:  the component mounts (useState takes its initial value)
\*   forced: the invocation comes from a parent re-render (possibly with
\*           a new path or context) rather than from the consumer's own
\*           queued state update
Invoke(c, p, e, d, first, forced, op) ==
  LET modelValue == Coalesce(GetDeepCopy(data, p), d)
      wrote == DefaultWrites(data, p, d)
      st == SetNull(data, p, d)
      \* useState: the initial value on mount, else the queued update
      state0 == IF first THEN modelValue
                ELSE IF queue[c] # NoUpdate THEN queue[c] ELSE cell[c]
      ph1 == [phase EXCEPT ![c] = "mounted"]
      qu0 == [queue EXCEPT ![c] = NoUpdate]
      \* the default write emits a change event during the render
      qu1 == IF wrote THEN Dispatch(listeners, p, st, ph1, cell, qu0, c) ELSE qu0
      selfUpdate == qu1[c] # NoUpdate
      \* a render-phase update of the rendering component re-runs its body
      state1 == IF selfUpdate THEN qu1[c] ELSE state0
      value1 == IF selfUpdate THEN Coalesce(GetDeepCopy(st, p), d) ELSE modelValue
      \* React keeps the output unless no pass changed the state
      commit == \/ first \/ forced
                \/ ~SameValue(state0, cell[c])
                \/ (selfUpdate /\ ~SameValue(state1, state0))
      newKeys == Keys(p, e)
  IN
  /\ data' = st
  /\ queue' = [qu1 EXCEPT ![c] = NoUpdate]
  /\ calls' = IF wrote THEN CallsFor(listeners, p) ELSE NoCalls
  /\ phase' = ph1
  /\ dflt' = [dflt EXCEPT ![c] = d]
  /\ IF commit
     THEN /\ cell' = [cell EXCEPT ![c] = state1]
          /\ returned' = [returned EXCEPT ![c] = value1]
          /\ keys' = [keys EXCEPT ![c] = newKeys]
          /\ effectPending' = [effectPending EXCEPT ![c] = first \/ DepsChanged(keys[c], newKeys)]
     ELSE UNCHANGED <<cell, returned, keys, effectPending>>
  /\ last' = LastRec(op, c, p, d, GetDeepCopy(data, p), value1, wrote, commit, 0, 0)
  /\ UNCHANGED <<listeners, sub, prev>>
  /\ UNCHANGED mountVars

\* The component mounts: the first invocation.
Mount(c, p, e, d) ==
  /\ phase[c] = "new"
  /\ Invoke(c, p, e, d, TRUE, TRUE, "mount")

\* The parent re-renders the component, with a freshly scoped handle for
\* the same binding or for another path or event context.  React runs the
\* component's pending effects before it renders the component again.
ParentRender(c, p, e) ==
  /\ phase[c] = "mounted"
  /\ ~effectPending[c]
  /\ Invoke(c, p, e, dflt[c], FALSE, TRUE, "render")

\* React re-renders the component for its queued state update.
StateRender(c) ==
  /\ phase[c] = "mounted"
  /\ ~effectPending[c]
  /\ queue[c] # NoUpdate
  /\ Invoke(c, keys[c].path, keys[c].ctx, dflt[c], FALSE, FALSE, "staterender")

\* ---------------------------------------------------------------- useEffect
RECURSIVE RemoveOne(_, _)
RemoveOne(ls, l) ==
  IF ls = <<>> THEN <<>>
  ELSE IF Head(ls) = l THEN Tail(ls)
  ELSE <<Head(ls)>> \o RemoveOne(Tail(ls), l)

\* listenerModel.removeListener('all', listener)
CleanupWholePath(ls, c) ==
  IF sub[c] = NoSub THEN ls ELSE SelectSeq(ls, LAMBDA l : l.path # sub[c].path)
Cleanup(ls, c) == IF sub[c] = NoSub THEN ls ELSE RemoveOne(ls, sub[c])

\* rootModel.at(modelPath).eventContext(modelEventContext).on('all', '**', ..)
NewListener(c) == [owner |-> c, path |-> keys[c].path, ctx |-> keys[c].ctx]

\* The pending effect of consumer c runs: the cleanup of the previous effect,
\* then (unless the component was discarded) the new subscription.
RunEffect(c) ==
  /\ effectPending[c]
  /\ LET cleaned == Cleanup(listeners, c)
         setup == phase[c] = "mounted" IN
     /\ listeners' = IF setup THEN Append(cleaned, NewListener(c)) ELSE cleaned
     /\ sub' = [sub EXCEPT ![c] = IF setup THEN NewListener(c) ELSE NoSub]
     /\ prev' = [prev EXCEPT ![c] = sub[c].path]
     /\ last' = LastRec("effect", c, keys[c].path, Undef, Undef, Undef, FALSE, FALSE,
                        Len(listeners) - Len(cleaned), IF setup THEN 1 ELSE 0)
  /\ effectPending' = [effectPending EXCEPT ![c] = FALSE]
  /\ calls' = NoCalls
  /\ UNCHANGED <<data, phase, dflt, keys, cell, queue, returned>>
  /\ UNCHANGED mountVars

\* The component is discarded; its effect's cleanup is scheduled.  React
\* drops the hook state of a discarded component.
Unmount(c) ==
  /\ phase[c] = "mounted"
  /\ ~effectPending[c]
  /\ phase' = [phase EXCEPT ![c] = "discarded"]
  /\ queue' = [queue EXCEPT ![c] = NoUpdate]
  /\ cell' = [cell EXCEPT ![c] = Undef]
  /\ returned' = [returned EXCEPT ![c] = Undef]
  /\ dflt' = [dflt EXCEPT ![c] = Undef]
  /\ effectPending' = [effectPending EXCEPT ![c] = TRUE]
  /\ calls' = NoCalls
  /\ last' = LastRec("unmount", c, keys[c].path, Undef, Undef, Undef, FALSE, FALSE, 0, 0)
  /\ UNCHANGED <<data, listeners, keys, sub, prev>>
  /\ UNCHANGED mountVars

\* ---------------------------------------------------------------- mount
\* A root as createRoot(domContainer, reactRootOptions) returns it:
\*   status: "empty" (nothing rendered), "rendered", "unmounted"
\*   unmounts: how many times reactRoot.unmount() was called
\*   regAt: the host's count of 'destroy' events when the listener was added
\*   registered: a 'destroy' listener for the root was added to the host
\*   handle: { reactRoot } was returned to the caller
NewRoot(h, status, registered, handle) ==
  [host |-> h, status |-> status, unmounts |-> 0, regAt |-> fired[h],
   registered |-> registered, handle |-> handle]

\* derbyComponent.on('destroy', ...) comes after createRoot and before
\* reactRoot.render: it is reached whenever createRoot returned.
CallbackRegisteredAfterRender(createOk, renderOk) == createOk /\ renderOk
CallbackRegistered(createOk, renderOk) == createOk

\* reactRoot.unmount(): empties the container; on a root that is already
\* unmounted it does nothing and raises nothing.
UnmountRoot(r) == [r EXCEPT !.status = "unmounted", !.unmounts = @ + 1]
UnmountRaisesOnSecond(r) == r.status = "unmounted"
UnmountRaises(r) == FALSE

\* derbyComponent.on (not once): the listener stays after an emit.
ListenersAfterEmitOnce(ls) == <<>>
ListenersAfterEmit(ls) == ls

SeqRange(sq) == {sq[i] : i \in DOMAIN sq}

\* renderReactComponent(h, domContainer, reactComponent, reactRootOptions);
\* createOk and renderOk say whether createRoot and reactRoot.render return
\* or throw.  The host may already have been destroyed.
RenderReactComponent(h, createOk, renderOk) ==
  /\ Len(roots) < MaxCalls
  /\ IF ~createOk
     THEN /\ mlast' = MLastRec("call", h, "createThrew", 0, TRUE)
          /\ UNCHANGED <<roots, hostListeners>>
     ELSE LET id == Len(roots) + 1
              reg == CallbackRegistered(createOk, renderOk)
          IN /\ roots' = Append(roots, NewRoot(h, IF renderOk THEN "rendered" ELSE "empty",
                                               reg, renderOk))
             /\ hostListeners' = IF reg THEN [hostListeners EXCEPT ![h] = Append(@, id)]
                                 ELSE hostListeners
             /\ mlast' = MLastRec("call", h, IF renderOk THEN "returned" ELSE "renderThrew",
                                  id, ~renderOk)
  /\ UNCHANGED fired
  /\ UNCHANGED hookVars

\* The host component emits 'destroy': every listener added for it runs
\* reactRoot.unmount().
Destroy(h) ==
  /\ fired[h] < MaxDestroy
  /\ fired' = [fired EXCEPT ![h] = @ + 1]
  /\ roots' = [i \in DOMAIN roots |->
                 IF i \in SeqRange(hostListeners[h]) THEN UnmountRoot(roots[i]) ELSE roots[i]]
  /\ hostListeners' = [hostListeners EXCEPT ![h] = ListenersAfterEmit(@)]
  /\ mlast' = MLastRec("destroy", h, "none", 0,
                       \E i \in SeqRange(hostListeners[h]) : UnmountRaises(roots[i]))
  /\ UNCHANGED hookVars

\* ---------------------------------------------------------------- spec
\* One consumer, the full range of values and defaults.
Next ==
  \/ \E q \in MutPaths, v \in Values : ExternalMutation(q, v)
  \/ \E v \in Values \ {Undef} : SetModelValue(Solo, v)
  \/ \E p \in BoundPaths, e \in Contexts, d \in Defaults : Mount(Solo, p, e, d)
  \/ \E p \in BoundPaths, e \in Contexts : ParentRender(Solo, p, e)
  \/ StateRender(Solo)
  \/ RunEffect(Solo)
  \/ Unmount(Solo)

Spec == Init /\ [][Next]_vars

\* Two consumers of the same store, a smaller range of values and defaults.
NextPair ==
  \/ \E q \in MutPaths, v \in PairValues : ExternalMutation(q, v)
  \/ \E c \in Consumers, v \in PairValues : SetModelValue(c, v)
  \/ \E c \in Consumers, p \in BoundPaths, e \in Contexts, d \in PairDefaults : Mount(c, p, e, d)
  \/ \E c \in Consumers, p \in BoundPaths, e \in Contexts : ParentRender(c, p, e)
  \/ \E c \in Consumers : StateRender(c)
  \/ \E c \in Consumers : RunEffect(c)
  \/ \E c \in Consumers : Unmount(c)

SpecPair == Init /\ [][NextPair]_vars

\* Two consumers with defaults, and only the steps that follow a mutation:
\* effects and the re-renders for queued state updates.
NextQuiet ==
  \/ \E q \in BoundPaths, v \in QuietValues : ExternalMutation(q, v)
  \/ \E c \in Consumers, p \in BoundPaths, e \in Contexts, d \in QuietDefaults : Mount(c, p, e, d)
  \/ \E c \in Consumers : StateRender(c)
  \/ \E c \in Consumers : RunEffect(c)

SpecQuiet == Init /\ [][NextQuiet]_vars

\* The mount adapter: calls of renderReactComponent and 'destroy' events.
NextMount ==
  \/ \E h \in Hosts, createOk \in BOOLEAN, renderOk \in BOOLEAN :
       RenderReactComponent(h, createOk, renderOk)
  \/ \E h \in Hosts : Destroy(h)

SpecMount == Init /\ [][NextMount]_vars

\* ---------------------------------------------------------------- claims
\* The consumer's effect has run: its listener for the current keys is in
\* place and no effect is pending.
Subscribed(c) == phase[c] = "mounted" /\ ~effectPending[c]

Owned(c) == SelectSeq(listeners, LAMBDA l : l.owner = c)

\* null and undefined both count as "absent"
EquivAbsent(u, v) == u = v \/ (IsNullish(u) /\ IsNullish(v))

Settled == \A c \in Consumers : ~effectPending[c] /\ queue[c] = NoUpdate

\* C1: once every effect has run and every queued re-render has been
\* processed, each mounted consumer's last returned value is the store's
\* value at its bound path, whenever in its lifetime the mutations happened.
C1_MirrorEqualsStore ==
  Settled => \A c \in Consumers :
    phase[c] = "mounted" => EquivAbsent(returned[c], GetDeepCopy(data, keys[c].path))

\* C2: an invocation with a non-null default on a path whose value is
\* undefined or null leaves the default in the store and returns it.
C2_DefaultApplied ==
  (last.op \in Invocations /\ IsNullish(last.pre) /\ ~IsNullish(last.arg))
    => /\ GetDeepCopy(data, last.path) = last.arg
       /\ last.ret = last.arg

C2_Witness ==
  /\ last.op = "mount" /\ last.pre = Null /\ last.arg = Prim(1)
  /\ data[last.path[1]] = Prim(1) /\ last.ret = Prim(1)

\* C3: an invocation on a path holding a non-null value leaves that value
\* in the store and returns it, whatever default is supplied, on the first
\* invocation and on re-renders.
C3_DefaultNeverOverwrites ==
  (last.op \in Invocations /\ ~IsNullish(last.pre))
    => /\ GetDeepCopy(data, last.path) = last.pre
       /\ last.ret = last.pre

C3_Witness ==
  /\ last.op = "render" /\ last.pre = Prim(2) /\ last.arg = Prim(1)
  /\ data[last.path[1]] = Prim(2) /\ last.ret = Prim(2)

\* C4: the setter overwrites the store's value at the bound path with v,
\* the consumer's own subscription is notified, the consumer's next
\* returned value is v, and the setter changes the local state only
\* through the store's notification.
C4_SetterOverwritesAndNotifies ==
  [][/\ last'.op = "setter" =>
          /\ GetDeepCopy(data', last'.path) = last'.arg
          /\ calls'[last'.c] = 1
          /\ cell' = cell /\ returned' = returned
          /\ \A c \in Consumers : queue'[c] # queue[c] => calls'[c] >= 1
     /\ (last.op = "setter" /\ last'.op \in Invocations
           /\ last'.c = last.c /\ last'.path = last.path)
          => EquivAbsent(last'.ret, last.arg)]_vars

Rebound(c) == Subscribed(c) /\ prev[c] # <<>>

\* C6: a rebind from P1 to P2 removes one listener and installs one; after
\* it, a mutation at P1 neither calls the consumer's callback nor changes
\* what it returned, and a mutation at P2 makes the consumer re-render with
\* P2's new value.
C6_RebindMovesTheSubscription ==
  \A c \in Consumers :
    /\ (last.op = "effect" /\ last.c = c /\ Rebound(c))
         => last.rm = 1 /\ last.add = 1 /\ Owned(c) = <<NewListener(c)>>
    /\ (last.op = "mutate" /\ Rebound(c) /\ IsPrefix(prev[c], last.path))
         => calls[c] = 0
    /\ (last.op = "mutate" /\ Rebound(c) /\ IsPrefix(keys[c].path, last.path))
         => \/ queue[c] # NoUpdate
            \/ EquivAbsent(returned[c], GetDeepCopy(data, keys[c].path))

\* C7: the invocation that rebinds a consumer to P2 returns P2's current
\* value, and the local state cell holds P2's current value.
C7_RebindRefreshesTheCell ==
  \A c \in Consumers :
    (last.op = "render" /\ last.c = c /\ effectPending[c])
      => /\ EquivAbsent(last.ret, GetDeepCopy(data, last.path))
         /\ EquivAbsent(cell[c], GetDeepCopy(data, last.path))

\* C8: once its effects have run, a mounted consumer owns exactly one
\* listener, the one for its current keys; a re-render whose keys equal
\* those of the registered listener schedules no effect.
C8_OneListenerPerConsumer ==
  \A c \in Consumers :
    /\ Subscribed(c) => Owned(c) = <<NewListener(c)>> /\ sub[c] = NewListener(c)
    /\ (last.op \in {"render", "staterender"} /\ last.c = c
          /\ sub[c] = NewListener(c)) => ~effectPending[c]

C8_Witness ==
  /\ last.op = "render" /\ last.c = Solo /\ last.committed
  /\ Subscribed(Solo) /\ Owned(Solo) = <<sub[Solo]>>

\* C9: a teardown removes the consumer's own listener and nothing else: the
\* store never holds a listener of a consumer other than the one its last
\* effect registered, a discarded consumer whose cleanup has run owns none
\* and is never called, and the listeners of other consumers and of other
\* code stay registered.
C9_TeardownRemovesOwnListenerOnly ==
  /\ SelectSeq(listeners, LAMBDA l : l.owner = "other") = <<OtherListener>>
  /\ \A c \in Consumers :
       /\ Owned(c) = IF sub[c] = NoSub THEN <<>> ELSE <<sub[c]>>
       /\ (phase[c] = "discarded" /\ ~effectPending[c])
            => sub[c] = NoSub /\ calls[c] = 0
       /\ (last.op = "effect" /\ last.c = c /\ prev[c] # <<>>) => last.rm = 1

C9_Witness ==
  /\ last.op = "effect" /\ last.c = "c1" /\ phase["c1"] = "discarded"
  /\ prev["c1"] = <<"a">> /\ Subscribed("c2") /\ keys["c2"].path = <<"a">>
  /\ listeners = <<OtherListener, sub["c2"]>>

\* C10: a re-render for a state update consumes the notifications queued
\* so far (N mutations give at most N re-renders), and after the mutations
\* of the bound path have been processed the consumer's rendered value is
\* the store's final value at that path.
C10_BatchEndsAtFinalValue ==
  [][\A c \in Consumers :
       /\ (last'.op = "staterender" /\ last'.c = c)
            => /\ queue[c] # NoUpdate /\ queue'[c] = NoUpdate
               /\ last'.committed =>
                    EquivAbsent(returned'[c], GetDeepCopy(data', keys'[c].path))
       /\ (last'.op = "mutate" /\ Subscribed(c) /\ IsPrefix(keys[c].path, last'.path)
             /\ queue'[c] = NoUpdate)
            => EquivAbsent(returned'[c], GetDeepCopy(data', keys'[c].path))]_vars

\* C11: a root whose call returned is unmounted in every state after its
\* host's 'destroy' event has fired, and is not unmounted before it fires.
C11_RootLifetimeBoundedByHost ==
  \A i \in DOMAIN roots :
    roots[i].handle => (fired[roots[i].host] >= 1 <=> roots[i].status = "unmounted")

C13_DefaultWrittenOnlyAtMount ==
  [][(last'.op \in Invocations /\ data' # data) => last'.op = "mount"]_vars

\* C13 (amended): an invocation, first or later, writes the default exactly
\* when a non-null default is supplied and the store holds null or undefined
\* at the bound path at that time; it then writes the default at that path.
C13_DefaultWrittenWheneverAbsent ==
  [][last'.op \in Invocations =>
       /\ data' # data <=> (/\ IsNullish(GetDeepCopy(data, last'.path))
                            /\ ~IsNullish(last'.arg))
       /\ data' # data => data' = Write(data, last'.path, last'.arg)]_vars

C13_Witness ==
  /\ last.op = "staterender" /\ last.wrote /\ IsNullish(last.pre)
  /\ last.arg = Prim(1) /\ GetDeepCopy(data, last.path) = Prim(1)

\* C14: an invocation with no default (undefined or null) writes nothing
\* and notifies nobody, and on a path holding no value it returns an
\* absent value.
C14_NoDefaultNoWrite ==
  [][(last'.op \in Invocations /\ IsNullish(last'.arg)) =>
       /\ data' = data
       /\ calls' = NoCalls
       /\ \A c \in Consumers \ {last'.c} : queue'[c] = queue[c]
       /\ IsNullish(last'.pre) => IsNullish(last'.ret)]_vars

C14_Witness ==
  /\ last.op = "mount" /\ last.arg = Null /\ last.pre = Undef
  /\ IsNullish(last.ret) /\ data[last.path[1]] = Undef /\ ~last.wrote

\* C15 (as claimed): the 'destroy' callback is one-shot: unmount is called
\* once for a root, on the first firing of its host's 'destroy' event after
\* the registration, and never again.
C15_UnmountCalledOnce ==
  \A i \in DOMAIN roots :
    roots[i].registered =>
      roots[i].unmounts = IF fired[roots[i].host] > roots[i].regAt THEN 1 ELSE 0

\* C15 (amended): the callback stays registered: unmount is called once per
\* firing of the host's 'destroy' event after the registration; the root is
\* unmounted from the first of these calls on.
C15_UnmountCalledOnEveryDestroy ==
  \A i \in DOMAIN roots :
    /\ roots[i].registered =>
         roots[i].unmounts = fired[roots[i].host] - roots[i].regAt
    /\ ~roots[i].registered => roots[i].unmounts = 0
    /\ roots[i].status = "unmounted" <=> roots[i].unmounts >= 1

C15_Witness ==
  \E i \in DOMAIN roots :
    /\ roots[i].registered /\ roots[i].unmounts = 2
    /\ roots[i].status = "unmounted" /\ fired[roots[i].host] = 2

\* C16: a call whose createRoot throws raises the error and leaves no root,
\* no listener and nothing rendered; a call whose render throws raises the
\* error and returns no handle, but its root has its 'destroy' listener,
\* and the host's next 'destroy' event unmounts that root.
C16_StepsInOrder ==
  [][/\ (mlast'.op = "call" /\ mlast'.outcome = "createThrew")
          => mlast'.err /\ roots' = roots /\ hostListeners' = hostListeners
     /\ (mlast'.op = "call" /\ mlast'.outcome = "renderThrew")
          => /\ mlast'.err /\ Len(roots') = Len(roots) + 1
             /\ ~roots'[mlast'.root].handle
             /\ roots'[mlast'.root].status = "empty"
             /\ mlast'.root \in SeqRange(hostListeners'[mlast'.host])
     /\ (mlast'.op = "call" /\ mlast'.outcome = "returned")
          => /\ ~mlast'.err /\ roots'[mlast'.root].handle
             /\ roots'[mlast'.root].status = "rendered"
             /\ mlast'.root \in SeqRange(hostListeners'[mlast'.host])
     /\ mlast'.op = "destroy"
          => \A i \in DOMAIN roots :
               (roots[i].host = mlast'.host /\ ~roots[i].handle)
                 => roots'[i].status = "unmounted"]_vars

C16_Witness ==
  /\ mlast.op = "destroy"
  /\ \E i \in DOMAIN roots :
       /\ roots[i].host = mlast.host /\ ~roots[i].handle
       /\ roots[i].status = "unmounted" /\ roots[i].unmounts = 1

\* The consumer was bound to another path before its current one.
HasRebound(c) ==
  \/ sub[c] # NoSub /\ sub[c].path # keys[c].path
  \/ prev[c] # <<>> /\ prev[c] # keys[c].path

\* C17: after a rebind from P1 to P2 the setter of the latest invocation
\* writes v at P2 and leaves P1 and every other path as they were.
C17_SetterWritesCurrentPathOnly ==
  [][\A c \in Consumers :
       (last'.op = "setter" /\ last'.c = c /\ HasRebound(c)) =>
         /\ last'.path = keys[c].path
         /\ GetDeepCopy(data', keys[c].path) = last'.arg
         /\ \A t \in TopKeys \ {keys[c].path[1]} : data'[t] = data[t]]_vars

C17_Witness ==
  /\ last.op = "setter" /\ last.c = Solo /\ last.arg = Prim(2)
  /\ sub[Solo] # NoSub /\ sub[Solo].path = <<"a">> /\ keys[Solo].path = <<"b">>
  /\ data["a"] = Prim(1) /\ data["b"] = Prim(2)

\* C18: a notification delivered to a subscribed consumer whose last
\* returned value differs from the store's value at its bound path always
\* queues a state update, so the consumer re-renders with the store's value.
C18_NotificationForcesRerender ==
  \A c \in Consumers :
    (/\ last.op \in {"mutate", "setter"} /\ Subscribed(c) /\ calls[c] >= 1
     /\ ~EquivAbsent(returned[c], GetDeepCopy(data, keys[c].path)))
      => queue[c] # NoUpdate

\* What is left to do after a mutation: the paths a default write can still
\* fill, weighted above the re-renders that are queued.
Rank ==
  Cardinality(Consumers) * Cardinality({t \in TopKeys : IsNullish(data[t])})
  + Cardinality({c \in Consumers : queue[c] # NoUpdate})

\* C19: a callback never writes to the store, a re-render writes at most
\* the default (one event, each listener called at most once), and every
\* re-render for a state update lowers Rank: with no further external
\* mutation the notifications and re-renders come to an end.
C19_Quiescence ==
  [][/\ last'.op \in {"mutate", "setter"}
          => \A t \in TopKeys \ {last'.path[1]} : data'[t] = data[t]
     /\ last'.op \in Invocations
          => /\ \A c \in Consumers : calls'[c] <= 1
             /\ calls' # NoCalls => last'.wrote
             /\ data' # data => data' = Write(data, last'.path, last'.arg)
     /\ last'.op = "staterender" => Rank' < Rank]_vars

C19_Witness ==
  /\ last.op = "staterender" /\ last.c = "c1" /\ last.wrote /\ last.pre = Undef
  /\ calls["c1"] = 1 /\ calls["c2"] = 1 /\ queue["c2"] # NoUpdate
  /\ dflt["c1"] = Prim(1) /\ dflt["c2"] = Prim(2)

====
